---- MODULE Spec2Model ----
(***************************************************************************)
(* Model of calsi.py: the restricted expression evaluator (SafeEval) and   *)
(* the calculator shell that feeds it (ScientificCalculator).              *)
(*                                                                         *)
(* Text is a sequence of one-character strings.  Python's int is an        *)
(* integer of magnitude at most MaxAbs; Python's float is a fixed-point    *)
(* number with three decimals (an integer count of thousandths) of         *)
(* magnitude at most MaxAbs, with a signed zero.  An evaluation that       *)
(* leaves this range has status "oom" (outside the model) and the model    *)
(* does not take that step.  Library code (ast.parse, str, float, the math *)
(* module) is modelled at the place where calsi.py calls it.               *)
(***************************************************************************)
EXTENDS Integers, Sequences, FiniteSets, TLC

\* ScientificCalculator: expression, entry (the text of the Entry widget),
\* memory, use_degrees.  SafeEval: se_use_degrees (safe_eval.use_degrees).
\* user: what this run's user does (keys, buttons, a length bound).
\* last: the most recent evaluate(), kept until the next handler runs.
\* api: a direct caller of SafeEval.eval_expr and the text it builds.
\* conc: an eval_expr call in progress, with the flag reads it made.
VARIABLES expression, entry, memory, use_degrees, se_use_degrees,
          user, last, api, conc

vars == <<expression, entry, memory, use_degrees, se_use_degrees, user, last, api, conc>>

\* ------------------------------------------------------------------ bounds
MaxAbs == 2000
MaxLen == 5
MaxFnLen == 6
MaxConstLen == 18
MaxChunks == 3

Scale == 10 * 10 * 10

\* With(v, K) is K(v): it names a value that the lines after it use.
With(v, K(_)) == K(v)

\* ------------------------------------------------------------------ values
NoName == <<>>

\* t: "int", "float" or "func" (a function object).  n: the integer, or the
\* float's count of thousandths.  nz: the sign bit of a zero or an infinity.
\* sp: "fin", or "inf" / "nan" for the two kinds of non-finite float.
IntV(n) == [t |-> "int", n |-> n, nz |-> FALSE, sp |-> "fin", f |-> NoName]
FloatV(n) == [t |-> "float", n |-> n, nz |-> FALSE, sp |-> "fin", f |-> NoName]
FloatZ(neg) == [t |-> "float", n |-> 0, nz |-> neg, sp |-> "fin", f |-> NoName]
InfV(neg) == [t |-> "float", n |-> 0, nz |-> neg, sp |-> "inf", f |-> NoName]
NanV == [t |-> "float", n |-> 0, nz |-> FALSE, sp |-> "nan", f |-> NoName]
FuncV(name) == [t |-> "func", n |-> 0, nz |-> FALSE, sp |-> "fin", f |-> name]

IsNum(v) == v.t \in {"int", "float"}
IsFinite(v) == v.sp = "fin"
IsZero(v) == v.sp = "fin" /\ v.n = 0
IsNeg(v) == v.n < 0 \/ v.nz

Abs(i) == IF i < 0 THEN -i ELSE i

\* Rounded quotient of integers, half away from zero, b # 0.
RDiv(a, b) ==
  LET d == Abs(a) \div Abs(b)
      m == Abs(a) % Abs(b)
      q == IF m >= Abs(b) - m THEN d + 1 ELSE d
  IN  IF (a < 0) # (b < 0) THEN -q ELSE q

\* ---------------------------------------------------------------- results
\* The outcome of evaluating a node: a value, a raised exception, or "oom".
\* calls is the sequence of callables invoked so far, nr the number of
\* reads of self.use_degrees made so far.
Ok(v, calls, nr) == [st |-> "ok", v |-> v, err |-> "", calls |-> calls, nr |-> nr]
Raise(e, calls, nr) == [st |-> "err", v |-> IntV(0), err |-> e, calls |-> calls, nr |-> nr]
Oom(calls, nr) == [st |-> "oom", v |-> IntV(0), err |-> "", calls |-> calls, nr |-> nr]

\* A numeric outcome without the evaluation context: used by the arithmetic.
NOk(v) == [st |-> "ok", v |-> v, err |-> ""]
NErr(e) == [st |-> "err", v |-> IntV(0), err |-> e]
NOom == [st |-> "oom", v |-> IntV(0), err |-> ""]

MkInt(n) == IF Abs(n) > MaxAbs THEN NOom ELSE NOk(IntV(n))
MkFloat(n, neg) ==
  IF Abs(n) > MaxAbs * Scale THEN NOom
  ELSE IF n = 0 THEN NOk(FloatZ(neg)) ELSE NOk(FloatV(n))

\* float(v) for an int or float v of the model: thousandths.
Milli(v) == IF v.t = "int" THEN v.n * Scale ELSE v.n

\* ------------------------------------------------------------- arithmetic
\* IEEE results with an infinity or a NaN among the operands.
SpAdd(a, b) ==
  IF a.sp = "nan" \/ b.sp = "nan" THEN NOk(NanV)
  ELSE IF a.sp = "inf" /\ b.sp = "inf"
       THEN IF a.nz = b.nz THEN NOk(a) ELSE NOk(NanV)
  ELSE IF a.sp = "inf" THEN NOk(a) ELSE NOk(b)

SpNeg(a) == IF a.sp = "inf" THEN InfV(~a.nz) ELSE a

SpMul(a, b) ==
  IF a.sp = "nan" \/ b.sp = "nan" \/ IsZero(a) \/ IsZero(b) THEN NOk(NanV)
  ELSE NOk(InfV(IsNeg(a) # IsNeg(b)))

SpDiv(a, b) ==
  IF a.sp = "nan" \/ b.sp = "nan" \/ (a.sp = "inf" /\ b.sp = "inf") THEN NOk(NanV)
  ELSE IF a.sp = "inf" THEN NOk(InfV(IsNeg(a) # IsNeg(b)))
  ELSE NOk(FloatZ(IsNeg(a) # IsNeg(b)))

\* operator.add / operator.sub / operator.neg on int and float.
NumAdd(a, b) ==
  IF a.t = "int" /\ b.t = "int" THEN MkInt(a.n + b.n)
  ELSE IF ~IsFinite(a) \/ ~IsFinite(b) THEN SpAdd(a, b)
  ELSE MkFloat(Milli(a) + Milli(b), IsNeg(a) /\ IsNeg(b))

NumNeg(a) ==
  IF a.t = "int" THEN NOk(IntV(-a.n))
  ELSE IF ~IsFinite(a) THEN NOk(SpNeg(a))
  ELSE IF a.n = 0 THEN NOk(FloatZ(~a.nz)) ELSE NOk(FloatV(-a.n))

NumSub(a, b) ==
  IF a.t = "int" /\ b.t = "int" THEN MkInt(a.n - b.n)
  ELSE IF ~IsFinite(a) \/ ~IsFinite(b) THEN SpAdd(a, SpNeg(b))
  ELSE MkFloat(Milli(a) - Milli(b), IsNeg(a) /\ ~IsNeg(b))

\* Product of two counts of thousandths, in thousandths, without leaving
\* 32 bits: x * y / Scale with y split at Scale.
MilliMul(x, y) ==
  LET ax == Abs(x)
      ay == Abs(y)
      q == ax * (ay \div Scale) + RDiv(ax * (ay % Scale), Scale)
  IN  IF (x < 0) # (y < 0) THEN -q ELSE q

MulFits(x, y) == Abs(y) \div Scale = 0 \/ Abs(x) <= (MaxAbs * Scale) \div (Abs(y) \div Scale)

\* operator.mul.
NumMul(a, b) ==
  IF a.t = "int" /\ b.t = "int"
  THEN IF b.n # 0 /\ Abs(a.n) > MaxAbs \div Abs(b.n) THEN NOom ELSE MkInt(a.n * b.n)
  ELSE IF ~IsFinite(a) \/ ~IsFinite(b) THEN SpMul(a, b)
  ELSE IF ~MulFits(Milli(a), Milli(b)) THEN NOom
       ELSE MkFloat(MilliMul(Milli(a), Milli(b)), IsNeg(a) # IsNeg(b))

\* operator.truediv: always a float; a zero divisor raises.
NumDiv(a, b) ==
  IF IsZero(b) THEN NErr("ZeroDivisionError")
  ELSE IF ~IsFinite(a) \/ ~IsFinite(b) THEN SpDiv(a, b)
  ELSE IF Abs(Milli(a)) \div Abs(Milli(b)) > MaxAbs THEN NOom
       ELSE MkFloat(RDiv(Milli(a) * Scale, Milli(b)), IsNeg(a) # IsNeg(b))

\* ------------------------------------------------------------------ power
RECURSIVE PowAcc(_, _, _)
\* acc * b ** k, k >= 0, by repeated multiplication; stops at "oom".
PowAcc(acc, b, k) ==
  IF k = 0 THEN NOk(acc)
  ELSE LET r == NumMul(acc, b)
       IN  IF r.st # "ok" THEN r ELSE PowAcc(r.v, b, k - 1)

RECURSIVE ISqrtBits(_, _, _)
\* Largest r with r * r <= n, refined bit by bit from 2^k down.
ISqrtBits(n, r, k) ==
  IF k < 0 THEN r
  ELSE LET c == r + 2 ^ k
       IN  ISqrtBits(n, IF c <= 46340 /\ c * c <= n THEN c ELSE r, k - 1)

ISqrt(n) == ISqrtBits(n, 0, 15)

\* Sum of the series t, t*m/(d*1), t*m/(d*2)... used by exp, in thousandths.
RECURSIVE ExpSeries(_, _, _)
ExpSeries(r, term, i) ==
  IF term = 0 \/ i > 12 THEN 0
  ELSE term + ExpSeries(r, RDiv(term * r, Scale * i), i + 1)

\* e ** (n / Scale) for 0 <= n, in thousandths; -1 when beyond MaxAbs.
RECURSIVE MilliExp(_)
MilliExp(n) ==
  IF n < Scale THEN ExpSeries(n, Scale, 1)
  ELSE LET h == MilliExp(n - Scale)
       IN  IF h < 0 \/ h > MaxAbs * Scale THEN -1 ELSE MilliMul(h, 2718)

\* Natural logarithm of x / Scale for x > 0, in thousandths.
RECURSIVE AtanhSeries(_, _, _)
AtanhSeries(y2, term, k) ==
  IF term = 0 \/ k > 15 THEN 0
  ELSE RDiv(term, k) + AtanhSeries(y2, MilliMul(term, y2), k + 2)

RECURSIVE MilliLog(_)
MilliLog(x) ==
  IF x >= 2718 THEN Scale + MilliLog(RDiv(x * Scale, 2718))
  ELSE IF x < Scale THEN MilliLog(MilliMul(x, 2718)) - Scale
  ELSE LET y == RDiv((x - Scale) * Scale, x + Scale)
       IN  2 * AtanhSeries(MilliMul(y, y), y, 1)

\* Sine and cosine of r / Scale for -pi <= r / Scale <= pi, in thousandths.
RECURSIVE TrigSeries(_, _, _)
TrigSeries(r2, term, k) ==
  IF term = 0 \/ k > 24 THEN 0
  ELSE term + TrigSeries(r2, -RDiv(MilliMul(term, r2), (k + 1) * (k + 2)), k + 2)

\* The angle n / Scale brought into -pi .. pi, with 2 pi to six decimals.
ReduceAngle(n) ==
  LET m == (n * Scale) % 6283185
  IN  RDiv(IF 2 * m > 6283185 THEN m - 6283185 ELSE m, Scale)

MilliSin(n) == LET r == ReduceAngle(n) IN TrigSeries(MilliMul(r, r), r, 1)
MilliCos(n) == LET r == ReduceAngle(n) IN TrigSeries(MilliMul(r, r), Scale, 0)

\* operator.pow on int and float.  A negative base with a fractional
\* exponent gives a complex number, which the model does not hold.
NumPow(a, b) ==
  IF ~IsFinite(a) \/ ~IsFinite(b) THEN NOom
  ELSE IF a.t = "int" /\ b.t = "int" /\ b.n >= 0
  THEN IF Abs(a.n) <= 1 THEN NOk(IntV(IF a.n = -1 /\ b.n % 2 = 0 THEN 1
                                      ELSE IF b.n = 0 THEN 1 ELSE a.n))
       ELSE PowAcc(IntV(1), a, b.n)
  ELSE IF a.n = 0 /\ b.n < 0 THEN NErr("ZeroDivisionError")
  ELSE IF Milli(b) % Scale = 0
  THEN LET k == Abs(Milli(b)) \div Scale
           p == IF Abs(Milli(a)) = Scale
                THEN NOk(FloatV(IF a.n < 0 /\ k % 2 = 1 THEN -Scale ELSE Scale))
                ELSE IF a.n = 0 THEN NOk(IF k = 0 THEN FloatV(Scale) ELSE FloatZ(a.nz /\ k % 2 = 1))
                ELSE PowAcc(FloatV(Scale), FloatV(Milli(a)), k)
       IN  IF p.st # "ok" \/ b.n >= 0 THEN p
           ELSE IF p.v.n = 0 THEN NOom
           ELSE NumDiv(FloatV(Scale), p.v)
  ELSE IF a.n = 0 THEN NOk(FloatZ(FALSE))
  ELSE IF a.n < 0 THEN NOom
  ELSE LET y == MilliMul(Milli(b), MilliLog(Milli(a)))
       IN  IF Abs(y) > 8 * Scale THEN NOom
           ELSE IF y >= 0
                THEN LET r == MilliExp(y) IN IF r < 0 THEN NOom ELSE MkFloat(r, FALSE)
                ELSE LET r == MilliExp(-y) IN
                     IF r <= 0 THEN NOom ELSE MkFloat(RDiv(Scale * Scale, r), FALSE)

\* ------------------------------------------------------------ math module
\* math.radians(x): x * pi / 180.
Radians(v) ==
  IF ~IsNum(v) THEN NErr("TypeError")
  ELSE IF ~IsFinite(v) THEN NOk(v)
  ELSE MkFloat(RDiv(Milli(v) * 349, 20 * Scale), IsNeg(v))

\* math.sin, math.cos, math.tan: "math domain error" at an infinity.
MathSin(v) ==
  IF v.sp = "inf" THEN NErr("ValueError") ELSE IF v.sp = "nan" THEN NOk(NanV)
  ELSE MkFloat(MilliSin(Milli(v)), IsNeg(v))
MathCos(v) ==
  IF v.sp = "inf" THEN NErr("ValueError") ELSE IF v.sp = "nan" THEN NOk(NanV)
  ELSE MkFloat(MilliCos(Milli(v)), FALSE)
MathTan(v) ==
  LET c == MilliCos(Milli(v))
  IN  IF v.sp = "inf" THEN NErr("ValueError") ELSE IF v.sp = "nan" THEN NOk(NanV)
      ELSE IF c = 0 THEN NOom
      ELSE MkFloat(RDiv(MilliSin(Milli(v)) * Scale, c), IsNeg(v))

\* math.sqrt: "math domain error" below zero; sqrt(-0.0) is -0.0.
MathSqrt(v) ==
  IF v.sp = "nan" THEN NOk(NanV)
  ELSE IF v.sp = "inf" THEN (IF v.nz THEN NErr("ValueError") ELSE NOk(v))
  ELSE IF Milli(v) < 0 THEN NErr("ValueError")
  ELSE MkFloat(ISqrt(Milli(v) * Scale), IsNeg(v))

\* math.log(x) and math.log(x, base): "math domain error" at or below zero.
MathLog(args) ==
  IF args[1].sp = "nan" /\ Len(args) = 1 THEN NOk(NanV)
  ELSE IF args[1].sp = "inf" /\ Len(args) = 1
       THEN (IF args[1].nz THEN NErr("ValueError") ELSE NOk(args[1]))
  ELSE IF \E i \in 1..Len(args) : ~IsFinite(args[i]) THEN NOom
  ELSE IF Milli(args[1]) <= 0 THEN NErr("ValueError")
  ELSE IF Len(args) = 1 THEN MkFloat(MilliLog(Milli(args[1])), FALSE)
  ELSE IF Milli(args[2]) <= 0 THEN NErr("ValueError")
  ELSE NumDiv(FloatV(MilliLog(Milli(args[1]))), FloatV(MilliLog(Milli(args[2]))))

\* math.exp: beyond the range of the model's float the result is "oom".
MathExp(v) ==
  LET n == Milli(v)
  IN  IF v.sp = "nan" THEN NOk(NanV)
      ELSE IF v.sp = "inf" THEN (IF v.nz THEN NOk(FloatZ(FALSE)) ELSE NOk(v))
      ELSE IF n > 8 * Scale THEN NOom
      ELSE IF n < -8 * Scale THEN NOk(FloatZ(FALSE))
      ELSE IF n >= 0
           THEN LET r == MilliExp(n) IN IF r < 0 THEN NOom ELSE MkFloat(r, FALSE)
           ELSE MkFloat(RDiv(Scale * Scale, MilliExp(-n)), FALSE)

\* --------------------------------------------------------------- SafeEval
NmSin == <<"s", "i", "n">>
NmCos == <<"c", "o", "s">>
NmTan == <<"t", "a", "n">>
NmLog == <<"l", "o", "g">>
NmSqrt == <<"s", "q", "r", "t">>
NmExp == <<"e", "x", "p">>
NmPi == <<"p", "i">>
NmE == <<"e">>

\* SafeEval.allowed_funcs: its keys, and which of them are bound to
\* functions and which to floats.
CallableNames == {NmSin, NmCos, NmTan, NmLog, NmSqrt, NmExp}
ConstantNames == {NmPi, NmE}
allowed_funcs == CallableNames \cup ConstantNames
TrigNames == {NmSin, NmCos, NmTan}

AllowedFuncValue(name) ==
  IF name = NmPi THEN FloatV(3142)
  ELSE IF name = NmE THEN FloatV(2718)
  ELSE FuncV(name)

\* SafeEval.allowed_ops: the node types that are keys of the table.
allowed_ops == {"Add", "Sub", "Mult", "Div", "Pow", "USub"}

\* allowed_ops[type(node.op)](left, right) for a key of the table.
ApplyBinOp(op, a, b) ==
  IF ~IsNum(a) \/ ~IsNum(b) THEN NErr("TypeError")
  ELSE CASE op = "Add" -> NumAdd(a, b)
         [] op = "Sub" -> NumSub(a, b)
         [] op = "Mult" -> NumMul(a, b)
         [] op = "Div" -> NumDiv(a, b)
         [] op = "Pow" -> NumPow(a, b)
         [] OTHER -> NErr("TypeError")

\* allowed_ops[type(node.op)](operand): operator.neg.
ApplyUnaryOp(op, a) ==
  IF ~IsNum(a) \/ op # "USub" THEN NErr("TypeError") ELSE NumNeg(a)

\* allowed_funcs[func_name](*args) for a name bound to a function: the
\* arity and the argument types are checked by the function itself.
MathCall(name, args) ==
  IF name = NmLog /\ Len(args) \notin {1, 2} THEN NErr("TypeError")
  ELSE IF name # NmLog /\ Len(args) # 1 THEN NErr("TypeError")
  ELSE IF \E i \in 1..Len(args) : ~IsNum(args[i]) THEN NErr("TypeError")
  ELSE CASE name = NmSin -> MathSin(args[1])
         [] name = NmCos -> MathCos(args[1])
         [] name = NmTan -> MathTan(args[1])
         [] name = NmSqrt -> MathSqrt(args[1])
         [] name = NmExp -> MathExp(args[1])
         [] name = NmLog -> MathLog(args)

\* A numeric outcome placed in the evaluation context.
Lift(r, calls, nr) == [st |-> r.st, v |-> r.v, err |-> r.err, calls |-> calls, nr |-> nr]

\* The value the i-th read of self.use_degrees returns: the reads made
\* while the flag was being changed are F.seq, later ones see F.dflt.
FlagRead(F, i) == IF i >= 1 /\ i <= Len(F.seq) THEN F.seq[i] ELSE F.dflt
FixedFlag(b) == [seq |-> <<>>, dflt |-> b]

\* A wrong mode test: it converts for every function.
ConvertsAnyFunction(name, flag) == flag

\* func_name in ['sin', 'cos', 'tan'] and self.use_degrees
NeedsConversion(name, flag) == name \in TrigNames /\ flag

\* Line 37-39 of _eval: the mode test, the conversion of args[0] and the
\* call.  nr counts the reads of self.use_degrees: the test reads it only
\* for sin, cos and tan.  A call that is made is logged with the arguments
\* as evaluated (raw) and as passed to the function (a).
CallApply(name, args, F, calls, nr) ==
  LET nr2 == IF name \in TrigNames THEN nr + 1 ELSE nr
      conv == NeedsConversion(name, FlagRead(F, nr2))
      first == IF conv /\ Len(args) > 0 THEN Radians(args[1]) ELSE NOk(IntV(0))
      passed == IF conv /\ Len(args) > 0 /\ first.st = "ok"
                THEN <<first.v>> \o Tail(args) ELSE args
      calls2 == Append(calls, [f |-> name, raw |-> args, a |-> passed])
  IN  IF conv /\ Len(args) = 0 THEN Raise("IndexError", calls, nr2)
      ELSE IF first.st # "ok" THEN Lift(first, calls, nr2)
      ELSE IF name \in ConstantNames THEN Raise("TypeError", calls, nr2)
      ELSE Lift(MathCall(name, passed), calls2, nr2)

RECURSIVE Eval(_, _, _, _)
RECURSIVE EvalArgs(_, _, _)

\* Line 27 of _eval once the operands have the outcomes L and R.
EvalBinOp(op, L, R) ==
  IF R.st # "ok" THEN R ELSE Lift(ApplyBinOp(op, L.v, R.v), R.calls, R.nr)

\* Line 27 of _eval once the left operand has the outcome L: the right
\* operand is evaluated after it.
EvalRight(node, F, L) ==
  IF L.st # "ok" THEN L ELSE EvalBinOp(node.op, L, Eval(node.r, F, L.calls, L.nr))

\* Line 29 of _eval once the operand has the outcome E.
EvalUnaryOp(op, E) ==
  IF E.st # "ok" THEN E ELSE Lift(ApplyUnaryOp(op, E.v), E.calls, E.nr)

\* The outcome A of the arguments so far, after the outcome h of the next.
ArgDone(A, h) ==
  [r |-> h, vals |-> IF h.st = "ok" THEN Append(A.vals, h.v) ELSE A.vals]

\* args = [self._eval(arg) for arg in node.args]: in order, the first
\* failure ends it.  A.r is the outcome so far (its v is unused), A.vals
\* the values so far.
EvalArgs(argNodes, F, A) ==
  IF A.r.st # "ok" \/ argNodes = <<>> THEN A
  ELSE EvalArgs(Tail(argNodes), F,
                ArgDone(A, Eval(Head(argNodes), F, A.r.calls, A.r.nr)))

\* Lines 37-39 of _eval once the arguments have the outcome A.
EvalCall(name, F, A) ==
  IF A.r.st # "ok" THEN A.r ELSE CallApply(name, A.vals, F, A.r.calls, A.r.nr)

\* SafeEval._eval(node).
Eval(node, F, calls, nr) ==
  CASE node.k = "BinOp" /\ node.op \notin allowed_ops -> Raise("KeyError", calls, nr)
    [] node.k = "BinOp" /\ node.op \in allowed_ops ->
         EvalRight(node, F, Eval(node.l, F, calls, nr))
    [] node.k = "UnaryOp" /\ node.op \notin allowed_ops -> Raise("KeyError", calls, nr)
    [] node.k = "UnaryOp" /\ node.op \in allowed_ops ->
         EvalUnaryOp(node.op, Eval(node.e, F, calls, nr))
    [] node.k = "Num" -> Ok(node.v, calls, nr)
    [] node.k = "Call" /\ node.func.k # "Name" -> Raise("AttributeError", calls, nr)
    [] node.k = "Call" /\ node.func.k = "Name" /\ node.func.id \notin allowed_funcs ->
         Raise("ValueError", calls, nr)
    [] node.k = "Call" /\ node.func.k = "Name" /\ node.func.id \in allowed_funcs ->
         EvalCall(node.func.id, F,
                  EvalArgs(node.args, F, [r |-> Ok(IntV(0), calls, nr), vals |-> <<>>]))
    [] node.k = "Name" /\ node.id \in allowed_funcs ->
         Ok(AllowedFuncValue(node.id), calls, nr)
    [] OTHER -> Raise("ValueError", calls, nr)

\* -------------------------------------------------------------- tokenizer
\* ast.parse's tokenizer on the characters the model's texts are made of.
Digits == {"0", "1", "2", "3", "4", "5", "6", "7", "8", "9"}
Letters == {"a", "b", "c", "d", "e", "f", "g", "h", "i", "j", "k", "l", "m",
            "n", "o", "p", "q", "r", "s", "t", "u", "v", "w", "x", "y", "z", "_"}
DigitVal(c) ==
  CASE c = "0" -> 0 [] c = "1" -> 1 [] c = "2" -> 2 [] c = "3" -> 3 [] c = "4" -> 4
    [] c = "5" -> 5 [] c = "6" -> 6 [] c = "7" -> 7 [] c = "8" -> 8 [] c = "9" -> 9

CharAt(text, i) == IF i >= 1 /\ i <= Len(text) THEN text[i] ELSE ""

RECURSIVE RunEnd(_, _, _)
\* The first index at or after i whose character is not in set.
RunEnd(text, i, set) ==
  IF CharAt(text, i) \in set THEN RunEnd(text, i + 1, set) ELSE i

Slice(text, i, j) == IF j < i THEN <<>> ELSE SubSeq(text, i, j)

\* The digit of position i of a digit string, 0 outside it.
DigitAt(ds, i) == IF i >= 1 /\ i <= Len(ds) THEN DigitVal(ds[i]) ELSE 0

RECURSIVE NatOf(_, _, _, _)
\* The number written by the digits 1..p of ds, from digit i on, added to
\* acc; it stops growing once beyond every number of the model.
NatOf(ds, p, i, acc) ==
  IF i > p THEN acc
  ELSE IF acc > MaxAbs * Scale THEN acc
  ELSE NatOf(ds, p, i + 1, acc * 10 + DigitAt(ds, i))

AllZero(ds) == \A i \in 1..Len(ds) : ds[i] = "0"

\* The float written by the digits ds with the decimal point after digit
\* p: thousandths, rounded on the fourth decimal.
FloatOfDigits(ds, p) ==
  LET whole == NatOf(ds, p, 1, 0)
      frac == 100 * DigitAt(ds, p + 1) + 10 * DigitAt(ds, p + 2) + DigitAt(ds, p + 3)
      up == IF DigitAt(ds, p + 4) >= 5 THEN 1 ELSE 0
  IN  IF whole > MaxAbs THEN NOom ELSE MkFloat(whole * Scale + frac + up, FALSE)

Tk(t, v, id, s) == [t |-> t, v |-> v, id |-> id, s |-> s]
TkNum(v) == Tk("num", v, <<>>, "")
TkName(id) == Tk("name", IntV(0), id, "")
TkOp(s) == Tk("op", IntV(0), <<>>, s)
TkStr == Tk("str", IntV(0), <<>>, "")

Keywords == {<<"a", "n", "d">>, <<"o", "r">>, <<"n", "o", "t">>}
KeywordOp(id) ==
  IF id = <<"a", "n", "d">> THEN "and" ELSE IF id = <<"o", "r">> THEN "or" ELSE "not"

OneCharOps == {"+", "-", "*", "/", "(", ")", ",", "=", ".", "<", "[", "]", "^"}

\* The value of a number literal: ip and fp are its digits before and after
\* the point, x its exponent; floating says that it has a point or an
\* exponent.
LiteralValue(ip, fp, x, floating) ==
  LET xs == IF x > 400 THEN 400 ELSE IF x < -400 THEN -400 ELSE x
  IN  IF ~floating
      THEN (IF NatOf(ip, Len(ip), 1, 0) > MaxAbs THEN NOom
            ELSE NOk(IntV(NatOf(ip, Len(ip), 1, 0))))
      ELSE IF AllZero(ip \o fp) THEN NOk(FloatZ(FALSE))
      ELSE IF xs >= 309 /\ ~AllZero(ip) THEN NOk(InfV(FALSE))
      ELSE IF xs > 8 THEN NOom
      ELSE FloatOfDigits(ip \o fp, Len(ip) + xs)

\* The literal text[i..c-1] whose integer part ends before a, whose
\* fraction ends before b and whose exponent digits are text[e0..c-1].
ScanValue(text, i, a, b, e0, c) ==
  LET dot == b > a
      hasExp == c > b
      ip == Slice(text, i, a - 1)
      fp == IF dot THEN Slice(text, a + 1, b - 1) ELSE <<>>
      xraw == IF hasExp THEN NatOf(Slice(text, e0, c - 1), c - e0, 1, 0) ELSE 0
      x == IF hasExp /\ CharAt(text, b + 1) = "-" THEN -xraw ELSE xraw
      lead == ~dot /\ ~hasExp /\ Len(ip) > 1 /\ ip[1] = "0" /\ ~AllZero(ip)
  IN  With(LiteralValue(ip, fp, x, dot \/ hasExp),
           LAMBDA val : [st |-> IF CharAt(text, c) \in Letters THEN "err" ELSE val.st,
                         v |-> val, j |-> c, lead |-> lead])

\* The exponent e[+-]digits, if one follows at b.
ScanExponent(text, i, a, b) ==
  LET e0 == IF CharAt(text, b + 1) \in {"+", "-"} THEN b + 2 ELSE b + 1
  IN  IF CharAt(text, b) = "e" /\ CharAt(text, e0) \in Digits
      THEN ScanValue(text, i, a, b, e0, RunEnd(text, e0, Digits))
      ELSE ScanValue(text, i, a, b, e0, b)

\* The fraction "." digits, if one follows at a.
ScanFraction(text, i, a) ==
  IF CharAt(text, a) = "." THEN ScanExponent(text, i, a, RunEnd(text, a + 1, Digits))
  ELSE ScanExponent(text, i, a, a)

\* A number literal starting at i: [st, v, j, lead] with j the index after
\* it.  Forms: digits, digits "." digits, "." digits, each with an optional
\* exponent e[+-]digits.  A letter right after the literal is an "invalid
\* decimal literal"; lead says that it is a decimal integer with a leading
\* zero, which the tokenizer refuses and float() accepts.
ScanNumber(text, i) == ScanFraction(text, i, RunEnd(text, i, Digits))

\* The operator token that starts at i: the longest of "**", "//", "..."
\* and the one-character operators.
OpAt(text, i) ==
  CASE CharAt(text, i) = "*" /\ CharAt(text, i + 1) = "*" -> "**"
    [] CharAt(text, i) = "/" /\ CharAt(text, i + 1) = "/" -> "//"
    [] CharAt(text, i) = "." /\ CharAt(text, i + 1) = "." /\ CharAt(text, i + 2) = "." -> "..."
    [] OTHER -> CharAt(text, i)
OpLen(s) == IF s \in {"**", "//"} THEN 2 ELSE IF s = "..." THEN 3 ELSE 1

\* A number literal starts at i: a digit, or a point before a digit.
NumberAt(text, i) ==
  CharAt(text, i) \in Digits \/ (CharAt(text, i) = "." /\ CharAt(text, i + 1) \in Digits)

\* The token of the identifier or keyword id.
WordToken(id) == IF id \in Keywords THEN TkOp(KeywordOp(id)) ELSE TkName(id)

\* The index after the string literal that starts at i, 0 when it is not
\* closed.
StringEnd(text, j) == IF CharAt(text, j) = "'" THEN j + 1 ELSE 0

RECURSIVE Tokenize(_, _)
\* The tokens of text from index s.i on, after the tokens s.toks:
\* [st, toks].
Tokenize(text, s) ==
  CASE s.i > Len(text) -> [st |-> "ok", toks |-> s.toks]
    [] CharAt(text, s.i) = " " -> Tokenize(text, [i |-> s.i + 1, toks |-> s.toks])
    [] NumberAt(text, s.i) ->
         IF ScanNumber(text, s.i).st = "err" \/ ScanNumber(text, s.i).lead
         THEN [st |-> "err", toks |-> s.toks]
         ELSE IF ScanNumber(text, s.i).st # "ok"
         THEN [st |-> ScanNumber(text, s.i).st, toks |-> s.toks]
         ELSE Tokenize(text, [i |-> ScanNumber(text, s.i).j,
                              toks |-> Append(s.toks, TkNum(ScanNumber(text, s.i).v.v))])
    [] CharAt(text, s.i) \in Letters ->
         Tokenize(text, [i |-> RunEnd(text, s.i, Letters \cup Digits),
                         toks |-> Append(s.toks,
                                         WordToken(Slice(text, s.i,
                                                         RunEnd(text, s.i, Letters \cup Digits) - 1)))])
    [] CharAt(text, s.i) = "'" ->
         IF StringEnd(text, RunEnd(text, s.i + 1, Digits \cup Letters \cup OneCharOps \cup {" "})) = 0
         THEN [st |-> "err", toks |-> s.toks]
         ELSE Tokenize(text, [i |-> StringEnd(text, RunEnd(text, s.i + 1,
                                                            Digits \cup Letters \cup OneCharOps \cup {" "})),
                              toks |-> Append(s.toks, TkStr)])
    [] CharAt(text, s.i) \in OneCharOps /\ ~NumberAt(text, s.i) ->
         Tokenize(text, [i |-> s.i + OpLen(OpAt(text, s.i)),
                         toks |-> Append(s.toks, TkOp(OpAt(text, s.i)))])
    [] OTHER -> [st |-> "err", toks |-> s.toks]

\* ------------------------------------------------------------------ nodes
\* The ast node types _eval tells apart, and "Other" for every other type
\* (Compare, BoolOp, Attribute, Subscript, Starred, Tuple, List, a string
\* or Ellipsis constant), with the kind in kind and the sub-nodes in ch.
NumN(v) == [k |-> "Num", v |-> v]
NameN(id) == [k |-> "Name", id |-> id]
BinOpN(op, l, r) == [k |-> "BinOp", op |-> op, l |-> l, r |-> r]
UnaryOpN(op, e) == [k |-> "UnaryOp", op |-> op, e |-> e]
CallN(func, args, kw) == [k |-> "Call", func |-> func, args |-> args, kw |-> kw]
OtherN(kind, ch) == [k |-> "Other", kind |-> kind, ch |-> ch]

\* -------------------------------------------------------------- ast.parse
\* Python's expression grammar on the tokens above, by precedence climbing:
\* or < and < not < comparison < ^ < + - < * / // < unary + - < ** <
\* call, attribute, subscript < atom.  Every result is [st, node, i] with
\* i the index of the token after the expression; every failure is PErr.
TokAt(toks, i) ==
  IF i >= 1 /\ i <= Len(toks) THEN toks[i] ELSE Tk("eof", IntV(0), <<>>, "")
IsOp(tk, s) == tk.t = "op" /\ tk.s = s
IsOpIn(tk, set) == tk.t = "op" /\ tk.s \in set

POk(node, i) == [st |-> "ok", node |-> node, i |-> i]
PErr == [st |-> "err", node |-> NumN(IntV(0)), i |-> 0]

\* A wrong grammar: * and / at the level of + and -.
LevelOpsFlat(lvl) ==
  CASE lvl = 1 -> {"or"}
    [] lvl = 2 -> {"and"}
    [] lvl = 4 -> {"<"}
    [] lvl = 5 -> {"^"}
    [] lvl = 6 -> {"+", "-", "*", "/", "//"}
    [] OTHER -> {}

\* The binary operators of each level of the grammar; level 3 is "not",
\* level 8 the unary sign and level 9 "**".
LevelOps(lvl) ==
  CASE lvl = 1 -> {"or"}
    [] lvl = 2 -> {"and"}
    [] lvl = 4 -> {"<"}
    [] lvl = 5 -> {"^"}
    [] lvl = 6 -> {"+", "-"}
    [] lvl = 7 -> {"*", "/", "//"}
    [] OTHER -> {}

\* The level of the binary operator a token is, 0 for any other token.
BinLevel(tk) ==
  IF tk.t = "op" /\ (\E lvl \in 1..7 : tk.s \in LevelOps(lvl))
  THEN CHOOSE lvl \in 1..7 : tk.s \in LevelOps(lvl)
  ELSE 0

BinNode(s, l, r) ==
  CASE s = "+" -> BinOpN("Add", l, r)
    [] s = "-" -> BinOpN("Sub", l, r)
    [] s = "*" -> BinOpN("Mult", l, r)
    [] s = "/" -> BinOpN("Div", l, r)
    [] s = "//" -> BinOpN("FloorDiv", l, r)
    [] s = "**" -> BinOpN("Pow", l, r)
    [] s = "^" -> BinOpN("BitXor", l, r)
    [] s = "<" -> OtherN("Compare", <<l, r>>)
    [] OTHER -> OtherN("BoolOp", <<l, r>>)

RECURSIVE PExpr(_, _, _)
RECURSIVE PLoop(_, _, _)
RECURSIVE POperand(_, _, _)
RECURSIVE PTrailers(_, _)
RECURSIVE PArgs(_, _, _, _, _)
RECURSIVE PItems(_, _, _, _)
RECURSIVE PAtom(_, _)

\* The node of operator s on the operand l and the parsed operand r.
PBin(s, l, r) ==
  IF r.st # "ok" THEN PErr ELSE POk(BinNode(s, l.node, r.node), r.i)

\* The node of a prefix operator on the parsed operand r.
PPrefix(op, r) ==
  IF r.st # "ok" THEN PErr ELSE POk(UnaryOpN(op, r.node), r.i)

\* l (op right)*: the operators of level min and above that follow the
\* operand l, each with a right operand of the levels above its own.
PLoop(toks, l, min) ==
  CASE l.st # "ok" -> PErr
    [] l.st = "ok" /\ BinLevel(TokAt(toks, l.i)) < min -> l
    [] OTHER ->
         PLoop(toks,
               PBin(TokAt(toks, l.i).s, l,
                    PExpr(toks, l.i + 1, BinLevel(TokAt(toks, l.i)) + 1)),
               min)

\* The expression of level min that starts at token i.
PExpr(toks, i, min) == PLoop(toks, POperand(toks, i, min), min)

\* primary ["**" factor], for the parsed primary b.
PPower(toks, b) ==
  CASE b.st # "ok" -> PErr
    [] b.st = "ok" /\ ~IsOp(TokAt(toks, b.i), "**") -> b
    [] OTHER -> PBin("**", b, POperand(toks, b.i + 1, 8))

\* The operand of an expression of level min that starts at token i:
\* "not" inversion (up to level 3 only), a signed factor, or a power.
POperand(toks, i, min) ==
  CASE IsOp(TokAt(toks, i), "not") ->
         IF min > 3 THEN PErr ELSE PPrefix("Not", PExpr(toks, i + 1, 3))
    [] IsOp(TokAt(toks, i), "-") -> PPrefix("USub", POperand(toks, i + 1, 8))
    [] IsOp(TokAt(toks, i), "+") -> PPrefix("UAdd", POperand(toks, i + 1, 8))
    [] OTHER -> PPower(toks, PTrailers(toks, PAtom(toks, i)))

PItemsErr == [st |-> "err", items |-> <<>>, i |-> 0]

\* What follows the parsed element r of a display closed by close.
PItem(toks, close, done, r) ==
  CASE r.st # "ok" -> PItemsErr
    [] r.st = "ok" /\ IsOp(TokAt(toks, r.i), close) ->
         [st |-> "ok", items |-> Append(done, r.node), i |-> r.i + 1]
    [] r.st = "ok" /\ IsOp(TokAt(toks, r.i), ",") ->
         IF IsOp(TokAt(toks, r.i + 1), close)
         THEN [st |-> "ok", items |-> Append(done, r.node), i |-> r.i + 2]
         ELSE PItems(toks, r.i + 1, close, Append(done, r.node))
    [] OTHER -> PItemsErr

\* expr ("," expr)* up to the closing token: the elements of a display.
PItems(toks, i, close, done) == PItem(toks, close, done, PExpr(toks, i, 1))

PArgsErr == [st |-> "err", args |-> <<>>, kw |-> <<>>, i |-> 0]

\* The kind of the argument that starts at token i: name=value, *value,
\* **value or a positional one.
ArgKind(toks, i) ==
  CASE TokAt(toks, i).t = "name" /\ IsOp(TokAt(toks, i + 1), "=") -> "kw"
    [] IsOp(TokAt(toks, i), "*") -> "star"
    [] IsOp(TokAt(toks, i), "**") -> "star2"
    [] OTHER -> "pos"

\* The index of the first token of the value of an argument of that kind.
ArgStart(i, kind) ==
  CASE kind = "kw" -> i + 2
    [] kind \in {"star", "star2"} -> i + 1
    [] OTHER -> i

\* What follows an argument that ends before token j.
PArgSep(toks, j, args, kw) ==
  CASE IsOp(TokAt(toks, j), ")") -> [st |-> "ok", args |-> args, kw |-> kw, i |-> j + 1]
    [] IsOp(TokAt(toks, j), ",") ->
         IF IsOp(TokAt(toks, j + 1), ")")
         THEN [st |-> "ok", args |-> args, kw |-> kw, i |-> j + 2]
         ELSE PArgs(toks, j + 1, args, kw, FALSE)
    [] OTHER -> PArgsErr

\* The argument of that kind whose parsed value is r: positional ones (a
\* starred one among them) go to args, name=value and **value to kw.  A
\* positional argument after a keyword one is a syntax error.
PArg(toks, kind, args, kw, r) ==
  CASE r.st # "ok" -> PArgsErr
    [] r.st = "ok" /\ kind = "pos" /\ kw # <<>> -> PArgsErr
    [] r.st = "ok" /\ kind = "pos" /\ kw = <<>> ->
         PArgSep(toks, r.i, Append(args, r.node), kw)
    [] r.st = "ok" /\ kind = "star" ->
         PArgSep(toks, r.i, Append(args, OtherN("Starred", <<r.node>>)), kw)
    [] OTHER -> PArgSep(toks, r.i, args, Append(kw, r.node))

\* The arguments of a call, after "(": [st, args, kw, i].
PArgs(toks, i, args, kw, first) ==
  IF first /\ IsOp(TokAt(toks, i), ")")
  THEN [st |-> "ok", args |-> args, kw |-> kw, i |-> i + 1]
  ELSE PArg(toks, ArgKind(toks, i), args, kw,
            PExpr(toks, ArgStart(i, ArgKind(toks, i)), 1))

\* The call of func with the parsed arguments A.
PCall(func, A) ==
  IF A.st # "ok" THEN PErr ELSE POk(CallN(func, A.args, A.kw), A.i)

\* The subscript of left by the parsed expression r.
PSubscript(toks, left, r) ==
  IF r.st # "ok" \/ ~IsOp(TokAt(toks, r.i), "]") THEN PErr
  ELSE POk(OtherN("Subscript", <<left, r.node>>), r.i + 1)

\* primary: the calls, attribute accesses and subscripts after the parsed
\* atom or primary a.
PTrailers(toks, a) ==
  CASE a.st # "ok" -> PErr
    [] a.st = "ok" /\ IsOp(TokAt(toks, a.i), "(") ->
         PTrailers(toks, PCall(a.node, PArgs(toks, a.i + 1, <<>>, <<>>, TRUE)))
    [] a.st = "ok" /\ IsOp(TokAt(toks, a.i), ".") ->
         IF TokAt(toks, a.i + 1).t # "name" THEN PErr
         ELSE PTrailers(toks, POk(OtherN("Attribute", <<a.node>>), a.i + 2))
    [] a.st = "ok" /\ IsOp(TokAt(toks, a.i), "[") ->
         PTrailers(toks, PSubscript(toks, a.node, PExpr(toks, a.i + 1, 1)))
    [] OTHER -> a

\* The tuple or list of the parsed elements m.
PDisplay(kind, m) ==
  IF m.st # "ok" THEN PErr ELSE POk(OtherN(kind, m.items), m.i)

\* What follows "(" and the parsed expression r: ")" of a parenthesized
\* expression, or "," of a tuple.
PParen(toks, r) ==
  CASE r.st # "ok" -> PErr
    [] r.st = "ok" /\ IsOp(TokAt(toks, r.i), ")") -> POk(r.node, r.i + 1)
    [] r.st = "ok" /\ IsOp(TokAt(toks, r.i), ",") ->
         IF IsOp(TokAt(toks, r.i + 1), ")")
         THEN POk(OtherN("Tuple", <<r.node>>), r.i + 2)
         ELSE PDisplay("Tuple", PItems(toks, r.i + 1, ")", <<r.node>>))
    [] OTHER -> PErr

\* The atom whose first token is at i, before its trailers.
PAtom(toks, i) ==
  CASE TokAt(toks, i).t = "num" -> POk(NumN(TokAt(toks, i).v), i + 1)
    [] TokAt(toks, i).t = "name" -> POk(NameN(TokAt(toks, i).id), i + 1)
    [] TokAt(toks, i).t = "str" -> POk(OtherN("Str", <<>>), i + 1)
    [] IsOp(TokAt(toks, i), "...") -> POk(OtherN("Ellipsis", <<>>), i + 1)
    [] IsOp(TokAt(toks, i), "(") ->
         IF IsOp(TokAt(toks, i + 1), ")") THEN POk(OtherN("Tuple", <<>>), i + 2)
         ELSE PParen(toks, PExpr(toks, i + 1, 1))
    [] IsOp(TokAt(toks, i), "[") ->
         IF IsOp(TokAt(toks, i + 1), "]") THEN POk(OtherN("List", <<>>), i + 2)
         ELSE PDisplay("List", PItems(toks, i + 1, "]", <<>>))
    [] OTHER -> PErr

\* The module the tokens parse to when r, the expression at their start,
\* is all of them.
PWhole(toks, r) ==
  IF r.st # "ok" \/ r.i # Len(toks) + 1
  THEN [st |-> "err", node |-> NumN(IntV(0))]
  ELSE [st |-> "ok", node |-> r.node]

\* The module a token sequence parses to, when all of it is one expression.
ParseTokens(tz) ==
  IF tz.st # "ok" THEN [st |-> tz.st, node |-> NumN(IntV(0))]
  ELSE PWhole(tz.toks, PExpr(tz.toks, 1, 1))

\* ast.parse(expr, mode='eval').body: [st, node], st "err" for SyntaxError,
\* "oom" for a literal the model's numbers do not hold.
Parse(text) == ParseTokens(Tokenize(text, [i |-> 1, toks |-> <<>>]))

\* The evaluation of what ast.parse returned.
EvalParsed(p, F) ==
  IF p.st = "err" THEN Raise("SyntaxError", <<>>, 0)
  ELSE IF p.st = "oom" THEN Oom(<<>>, 0)
  ELSE Eval(p.node, F, <<>>, 0)

\* SafeEval.eval_expr(expr) with self.use_degrees read as F says.
EvalExprF(text, F) == EvalParsed(Parse(text), F)

eval_expr(text, deg) == EvalExprF(text, FixedFlag(deg))

\* -------------------------------------------------------------------- str
DigitChar(d) ==
  CASE d = 0 -> "0" [] d = 1 -> "1" [] d = 2 -> "2" [] d = 3 -> "3" [] d = 4 -> "4"
    [] d = 5 -> "5" [] d = 6 -> "6" [] d = 7 -> "7" [] d = 8 -> "8" [] d = 9 -> "9"

RECURSIVE StrNat(_)
StrNat(n) == IF n < 10 THEN <<DigitChar(n)>> ELSE Append(StrNat(n \div 10), DigitChar(n % 10))

\* The decimals of a float's repr: the thousandths without trailing zeros,
\* one digit at least.
StrFrac(m) ==
  IF m % 100 = 0 THEN <<DigitChar(m \div 100)>>
  ELSE IF m % 10 = 0 THEN <<DigitChar(m \div 100), DigitChar((m \div 10) % 10)>>
  ELSE <<DigitChar(m \div 100), DigitChar((m \div 10) % 10), DigitChar(m % 10)>>

Minus(neg) == IF neg THEN <<"-">> ELSE <<>>

\* str(x) of a value eval_expr returns: int, float or builtin function.
StrValue(v) ==
  CASE v.t = "int" -> Minus(v.n < 0) \o StrNat(Abs(v.n))
    [] v.t = "float" /\ v.sp = "inf" -> Minus(v.nz) \o <<"i", "n", "f">>
    [] v.t = "float" /\ v.sp = "nan" -> <<"n", "a", "n">>
    [] v.t = "float" /\ v.sp = "fin" ->
         Minus(IsNeg(v)) \o StrNat(Abs(v.n) \div Scale) \o <<".">> \o StrFrac(Abs(v.n) % Scale)
    [] OTHER -> <<"<", "b", "u", "i", "l", "t", "-", "i", "n", " ",
                  "f", "u", "n", "c", "t", "i", "o", "n", " ">> \o v.f \o <<">">>

\* float(text): [st, v]; "err" is ValueError.  An optional sign, then a
\* number literal or inf / nan, and nothing else.
FloatParse(text) ==
  LET signed == CharAt(text, 1) \in {"+", "-"}
      neg == CharAt(text, 1) = "-"
      i == IF signed THEN 2 ELSE 1
      rest == Slice(text, i, Len(text))
      isNum == CharAt(text, i) \in Digits \/ (CharAt(text, i) = "." /\ CharAt(text, i + 1) \in Digits)
  IN  IF rest = <<"i", "n", "f">> THEN NOk(InfV(neg))
      ELSE IF rest = <<"n", "a", "n">> THEN NOk(NanV)
      ELSE IF ~isNum THEN NErr("ValueError")
      ELSE With(ScanNumber(text, i),
             LAMBDA r :
               IF r.st = "err" \/ r.j # Len(text) + 1 THEN NErr("ValueError")
               ELSE IF r.v.st # "ok" THEN r.v
               ELSE IF r.v.v.t = "int"
                    THEN MkFloat((IF neg THEN -1 ELSE 1) * r.v.v.n * Scale, neg)
               ELSE IF neg THEN NumNeg(r.v.v) ELSE r.v)

\* -------------------------------------------------- ScientificCalculator
ErrorText == <<"E", "r", "r", "o", "r">>
StrPi == <<"3", ".", "1", "4", "1", "5", "9", "2", "6", "5", "3", "5", "8", "9", "7", "9", "3">>
StrE == <<"2", ".", "7", "1", "8", "2", "8", "1", "8", "2", "8", "4", "5", "9", "0", "4", "5">>

\* The characters key_input lets through: '0123456789+-*/().^', and the
\* empty string of a key that carries no character ('' in s is True).
KeyInputChars == Digits \cup {"+", "-", "*", "/", "(", ")", ".", "^", ""}

\* The labels of create_buttons.
Buttons == {"7", "8", "9", "/", "sqrt", "4", "5", "6", "*", "^", "1", "2", "3", "-",
            "log", "0", ".", "(", ")", "+", "sin", "cos", "tan", "exp", "pi",
            "e", "M+", "MR", "MC", "="}
FuncButtons == {"sin", "cos", "tan", "log", "sqrt", "exp"}

ButtonChars(b) ==
  CASE b = "sin" -> NmSin [] b = "cos" -> NmCos [] b = "tan" -> NmTan
    [] b = "log" -> NmLog [] b = "sqrt" -> NmSqrt [] b = "exp" -> NmExp
    [] OTHER -> <<b>>

RECURSIVE ReplaceCaret(_)
\* self.expression.replace('^', '**')
ReplaceCaret(text) ==
  IF text = <<>> THEN <<>>
  ELSE (IF Head(text) = "^" THEN <<"*", "*">> ELSE <<Head(text)>>) \o ReplaceCaret(Tail(text))

NoEval == [st |-> "none", err |-> "", expr |-> <<>>, v |-> IntV(0), mem |-> IntV(0), deg |-> FALSE]

Fits(value) == Len(expression) + Len(value) <= user.n

\* add_to_expression(value)
add_to_expression(value) ==
  /\ expression' = expression \o value
  /\ entry' = expression \o value
  /\ last' = NoEval
  /\ UNCHANGED <<memory, use_degrees, se_use_degrees, user, api, conc>>

\* clear()
clear ==
  /\ expression' = <<>>
  /\ entry' = <<>>
  /\ last' = NoEval
  /\ UNCHANGED <<memory, use_degrees, se_use_degrees, user, api, conc>>

\* delete_last()
delete_last ==
  /\ expression' = Slice(expression, 1, Len(expression) - 1)
  /\ entry' = Slice(expression, 1, Len(expression) - 1)
  /\ last' = NoEval
  /\ UNCHANGED <<memory, use_degrees, se_use_degrees, user, api, conc>>

\* A wrong except branch: it keeps the pending expression.
OnErrorKeep(expr) == [entry |-> ErrorText, expression |-> expr]

\* What evaluate() leaves in the Entry and in self.expression.
OnResult(result) == [entry |-> result, expression |-> result]
OnError(expr) == [entry |-> ErrorText, expression |-> <<>>]

\* evaluate()
\* r is what self.safe_eval.eval_expr(expr) did, read with the flag that
\* line 93 has just copied.
Evaluated(r) ==
  LET shown == IF r.st = "ok" THEN OnResult(StrValue(r.v)) ELSE OnError(expression)
  IN  /\ r.st # "oom"
      /\ se_use_degrees' = use_degrees
      /\ entry' = shown.entry
      /\ expression' = shown.expression
      /\ last' = [st |-> r.st, err |-> r.err, expr |-> expression, v |-> r.v,
                   mem |-> memory, deg |-> use_degrees]
      /\ UNCHANGED <<memory, use_degrees, user, api, conc>>

evaluate == Evaluated(eval_expr(ReplaceCaret(expression), use_degrees))

\* toggle_deg_rad()
toggle_deg_rad ==
  /\ use_degrees' = ~use_degrees
  /\ last' = NoEval
  /\ UNCHANGED <<expression, entry, memory, se_use_degrees, user, api, conc>>

\* memory_store(): float(self.entry.get()), a failure is passed over.
Stored(f) ==
  /\ f.st # "oom"
  /\ memory' = IF f.st = "ok" THEN f.v ELSE memory
  /\ last' = NoEval
  /\ UNCHANGED <<expression, entry, use_degrees, se_use_degrees, user, api, conc>>

memory_store == Stored(FloatParse(entry))

\* memory_recall()
memory_recall == Fits(StrValue(memory)) /\ add_to_expression(StrValue(memory))

\* memory_clear()
memory_clear ==
  /\ memory' = IntV(0)
  /\ last' = NoEval
  /\ UNCHANGED <<expression, entry, use_degrees, se_use_degrees, user, api, conc>>

\* key_input(event)
KeyInput ==
  \E c \in user.chars :
    IF c \in KeyInputChars
    THEN LET value == IF c = "" THEN <<>> ELSE <<c>>
         IN  Fits(value) /\ add_to_expression(value)
    ELSE UNCHANGED vars

\* The bindings of bind_keys.
Return == "Return" \in user.keys /\ evaluate
BackSpace == "BackSpace" \in user.keys /\ delete_last
Escape == "Escape" \in user.keys /\ clear

\* on_button_click(char)
on_button_click ==
  \E char \in user.buttons :
    CASE char = "C" -> clear
      [] char = "DEL" -> delete_last
      [] char = "=" -> evaluate
      [] char = "pi" -> Fits(StrPi) /\ add_to_expression(StrPi)
      [] char = "e" -> Fits(StrE) /\ add_to_expression(StrE)
      [] char = "M+" -> memory_store
      [] char = "MR" -> memory_recall
      [] char = "MC" -> memory_clear
      [] char \in FuncButtons ->
           Fits(ButtonChars(char) \o <<"(">>) /\ add_to_expression(ButtonChars(char) \o <<"(">>)
      [] OTHER -> Fits(<<char>>) /\ add_to_expression(<<char>>)

\* The DEG/RAD button.
ToggleButton == "Toggle" \in user.keys /\ toggle_deg_rad

\* What a run's user does: the keys typed, the buttons clicked, the bound
\* keys used, and the longest pending expression the user types.
User(chars, buttons, spkeys, n) == [chars |-> chars, buttons |-> buttons, keys |-> spkeys, n |-> n]
Users ==
  { User({"2", ")", "", "s"}, {"sin", "="}, {"BackSpace", "Toggle", "Return", "Escape"}, MaxFnLen),
    User({"1", "9"}, {"exp", "="}, {"BackSpace"}, MaxLen),
    User({"-"}, {"pi", "e", "="}, {"BackSpace"}, MaxConstLen),
    User({"2", "0", "/"}, {"M+", "MR", "MC", "="}, {"Toggle"}, MaxLen - 2),
    User({"2", "3", "^"}, {"-"}, {"Return"}, MaxLen - 1) }


\* ------------------------------------------------ callers of eval_expr
\* The pieces a caller of eval_expr puts a text together from.
WhitelistChunks ==
  { <<"s", "i", "n", "(", "1", ")">>, <<"f", "o", "o">>,
    <<"f", "o", "o", "(">>,
    <<"o", "s", ".", "s", "y", "s", "t", "e", "m", "(">>,
    <<"_", "_", "i", "m", "p", "o", "r", "t", "_", "_", "(">>, <<"1", ")">>,
    <<"+">>, <<"s", "i", "n", "(", "0", ",", "k", "=">>, <<")">> }
GrammarChunks ==
  { <<"1">>, <<"+">>, <<"<">>, <<" ", "a", "n", "d", " ">>,
    <<"'", "a", "'">>, <<".", "r", "e", "a", "l">>, <<"[", "0", "]">>,
    <<"s", "i", "n", "(", "1", ",", "x", "=">>, <<")">>, <<"/", "/">> }
ArityNames ==
  { <<"s", "i", "n">>, <<"c", "o", "s">>, <<"t", "a", "n">>,
    <<"l", "o", "g">>, <<"s", "q", "r", "t">>, <<"e", "x", "p">>,
    <<"p", "i">>, <<"e">> }
ArityArgs ==
  { <<"(", ")">>, <<"(", "8", ")">>, <<"(", "8", ",", "2", ")">>,
    <<"(", "8", ",", "2", ",", "3", ")">>,
    <<"(", "8", ",", "x", "=", "2", ")">> }
DomainChunks ==
  { <<"1", "/", "0">>, <<"s", "q", "r", "t", "(", "-", "1", ")">>,
    <<"l", "o", "g", "(", "0", ")">>, <<"l", "o", "g", "(", "-", "1", ")">>,
    <<"2", "+">>, <<"s", "i", "n", "(", "1", ",", "x", "=">>, <<")">>,
    <<"*", "0">>, <<"2", "/", "(", "1", "-", "1">> }
DegreeChunks ==
  { <<"s", "i", "n", "(", "9", "0", ")">>,
    <<"c", "o", "s", "(", "6", "0", ")">>,
    <<"t", "a", "n", "(", "4", "5", ")">>,
    <<"l", "o", "g", "(", "9", "0", ")">>,
    <<"s", "q", "r", "t", "(", "9", "0", ")">>,
    <<"e", "x", "p", "(", "2", ")">>, <<"+">>, <<"l", "o", "g", "(">>,
    <<")">> }
Chars(set) == { <<c>> : c \in set }

\* A caller: the pieces of its texts, how many of them a text has at most,
\* whether it replaces '^' as evaluate() does (line 92), and the
\* use_degrees it constructs its SafeEval with.
Caller(pieces, n, caret, deg) == [pieces |-> pieces, n |-> n, caret |-> caret, deg |-> deg]
Callers ==
  { Caller(Chars({"2", "3", "4", "+", "*"}), MaxLen, TRUE, TRUE),
    Caller(Chars({"2", "3", "^", "-"}), MaxLen, TRUE, TRUE),
    Caller(Chars({"8", "2", "0", "/", "-"}), MaxLen, TRUE, TRUE) }
  \cup { Caller(pieces, MaxChunks, FALSE, deg) :
           pieces \in {WhitelistChunks, GrammarChunks, DomainChunks, DegreeChunks},
           deg \in BOOLEAN }
  \cup { Caller(ArityNames \cup ArityArgs, MaxChunks - 1, FALSE, deg) : deg \in BOOLEAN }

NoCaller == Caller({}, 0, FALSE, FALSE)
NoApi == [who |-> NoCaller, text |-> <<>>, n |-> 0, st |-> "none", res |-> Ok(IntV(0), <<>>, 0)]
NoConc == [pc |-> "none", reads |-> <<>>, res |-> Ok(IntV(0), <<>>, 0)]

\* __init__: the state after construction, for each user.
Init ==
  /\ expression = <<>>
  /\ entry = <<>>
  /\ memory = IntV(0)
  /\ use_degrees = TRUE
  /\ se_use_degrees = TRUE
  /\ user \in Users
  /\ last = NoEval
  /\ api = NoApi
  /\ conc = NoConc

Next == KeyInput \/ Return \/ BackSpace \/ Escape \/ on_button_click \/ ToggleButton

Spec == Init /\ [][Next]_vars

\* SafeEval.__init__(use_degrees), by each caller.
InitEval ==
  /\ expression = <<>>
  /\ entry = <<>>
  /\ memory = IntV(0)
  /\ use_degrees = TRUE
  /\ user = User({}, {}, {}, 0)
  /\ last = NoEval
  /\ conc = NoConc
  /\ \E who \in Callers :
       /\ se_use_degrees = who.deg
       /\ api = [who |-> who, text |-> <<>>, n |-> 0, st |-> "text", res |-> Ok(IntV(0), <<>>, 0)]

\* The caller adds a piece to the text it is going to pass.
ApiAppend ==
  /\ api.st = "text"
  /\ api.n < api.who.n
  /\ \E piece \in api.who.pieces :
       api' = [api EXCEPT !.text = api.text \o piece, !.n = api.n + 1]
  /\ UNCHANGED <<expression, entry, memory, use_degrees, se_use_degrees, user, last, conc>>

\* The text eval_expr is given.
Passed(who, text) == IF who.caret THEN ReplaceCaret(text) ELSE text

Returned(r) ==
  /\ r.st # "oom"
  /\ api' = [api EXCEPT !.st = "done", !.res = r]
  /\ UNCHANGED <<expression, entry, memory, use_degrees, se_use_degrees, user, last, conc>>

\* eval_expr(text)
ApiEval == api.st = "text" /\ Returned(eval_expr(Passed(api.who, api.text), se_use_degrees))

NextEval == ApiAppend \/ ApiEval

SpecEval == InitEval /\ [][NextEval]_vars

\* ------------------------------------------- an evaluation in progress
\* eval_expr step by step, with the other code that writes the flags
\* running between its steps: toggle_deg_rad (line 105) and an assignment
\* to safe_eval.use_degrees such as line 93 makes.
ConcTexts ==
  { <<"s", "i", "n", "(", "9", "0", ")", "+", "s", "i", "n", "(", "9", "0", ")">>,
    <<"s", "i", "n", "(", "9", "0", ")", "-", "c", "o", "s", "(", "6", "0", ")">>,
    <<"t", "a", "n", "(", "4", "5", ")", "*", "t", "a", "n", "(", "4", "5", ")">>,
    <<"s", "i", "n", "(", "c", "o", "s", "(", "6", "0", ")", ")">>,
    <<"l", "o", "g", "(", "9", "0", ")", "+", "s", "i", "n", "(", "3", "0", ")">>,
    <<"s", "i", "n", "(", "9", "0", ")">> }

Flags(reads) == [seq |-> reads, dflt |-> FALSE]

InitConc ==
  /\ expression \in ConcTexts
  /\ entry = expression
  /\ memory = IntV(0)
  /\ use_degrees = TRUE
  /\ se_use_degrees = TRUE
  /\ user = User({}, {}, {}, 0)
  /\ last = NoEval
  /\ api = NoApi
  /\ conc = [pc |-> "idle", reads |-> <<>>, res |-> Ok(IntV(0), <<>>, 0)]

\* evaluate() up to the call of eval_expr: lines 92-93.
ConcBegin ==
  /\ conc.pc = "idle"
  /\ se_use_degrees' = use_degrees
  /\ conc' = [conc EXCEPT !.pc = "eval", !.reads = <<>>]
  /\ UNCHANGED <<expression, entry, memory, use_degrees, user, last, api>>

\* r is the evaluation with the reads made so far: it has one more read
\* of self.use_degrees to make (line 37).
ReadsAgain(r) ==
  /\ r.nr > Len(conc.reads)
  /\ conc' = [conc EXCEPT !.reads = Append(conc.reads, se_use_degrees)]
  /\ UNCHANGED <<expression, entry, memory, use_degrees, se_use_degrees, user, last, api>>

ConcRead ==
  /\ conc.pc = "eval"
  /\ ReadsAgain(EvalExprF(ReplaceCaret(expression), Flags(conc.reads)))

\* r is the evaluation with the reads made: it has no read left, and
\* evaluate() shows what it returned or raised.
Finishes(r) ==
  LET shown == IF r.st = "ok" THEN OnResult(StrValue(r.v)) ELSE OnError(expression)
  IN  /\ r.st # "oom"
      /\ r.nr <= Len(conc.reads)
      /\ entry' = shown.entry
      /\ expression' = shown.expression
      /\ conc' = [conc EXCEPT !.pc = "done", !.res = r]
      /\ UNCHANGED <<memory, use_degrees, se_use_degrees, user, last, api>>

ConcFinish ==
  /\ conc.pc = "eval"
  /\ Finishes(EvalExprF(ReplaceCaret(expression), Flags(conc.reads)))

\* toggle_deg_rad(), at any time.
ConcToggle ==
  /\ use_degrees' = ~use_degrees
  /\ UNCHANGED <<expression, entry, memory, se_use_degrees, user, last, api, conc>>

\* self.safe_eval.use_degrees = self.use_degrees, by other code while the
\* evaluation runs.
ConcCopy ==
  /\ conc.pc = "eval"
  /\ se_use_degrees' = use_degrees
  /\ UNCHANGED <<expression, entry, memory, use_degrees, user, last, api, conc>>

\* clear() and the keys of the next expression.
ConcType ==
  /\ conc.pc = "done"
  /\ expression' \in ConcTexts
  /\ entry' = expression'
  /\ conc' = [conc EXCEPT !.pc = "idle", !.reads = <<>>]
  /\ UNCHANGED <<memory, use_degrees, se_use_degrees, user, last, api>>

NextConc == ConcBegin \/ ConcRead \/ ConcFinish \/ ConcToggle \/ ConcCopy \/ ConcType

SpecConc == InitConc /\ [][NextConc]_vars

\* ------------------------------------------------------------ properties
RECURSIVE NodeSeq(_)
RECURSIVE NodeSeqAll(_)
\* Every node of a tree: the node and, in order, the nodes under it,
\* keyword values included.
NodeSeq(node) ==
  <<node>> \o
  CASE node.k = "BinOp" -> NodeSeq(node.l) \o NodeSeq(node.r)
    [] node.k = "UnaryOp" -> NodeSeq(node.e)
    [] node.k = "Call" -> NodeSeq(node.func) \o NodeSeqAll(node.args) \o NodeSeqAll(node.kw)
    [] node.k = "Other" -> NodeSeqAll(node.ch)
    [] OTHER -> <<>>
NodeSeqAll(nodes) ==
  IF nodes = <<>> THEN <<>> ELSE NodeSeq(Head(nodes)) \o NodeSeqAll(Tail(nodes))

Some(seq, P(_)) == \E i \in 1..Len(seq) : P(seq[i])
Every(seq, P(_)) == \A i \in 1..Len(seq) : P(seq[i])

\* The tree of the text the caller passed, once eval_expr has returned
\* or raised; IfParsed(P) says that P holds of it when there is one.
IfParsed(P(_)) ==
  api.st = "done" =>
    With(Parse(Passed(api.who, api.text)), LAMBDA p : p.st = "ok" => P(p.node))

\* A call whose callee is not a whitelisted plain name, or an identifier
\* outside the whitelist.
ForbiddenNode(n) ==
  \/ n.k = "Call" /\ (n.func.k # "Name" \/ n.func.id \notin allowed_funcs)
  \/ n.k = "Name" /\ n.id \notin allowed_funcs

\* C1: eval_expr fails, without invoking any function, whenever the
\* expression contains a call whose callee is not a whitelisted plain name
\* or an identifier outside the whitelist; and the functions it invokes
\* are whitelisted ones.
C1_OnlyWhitelisted ==
  /\ IfParsed(LAMBDA tree : Some(NodeSeq(tree), ForbiddenNode)
                            => api.res.st = "err" /\ api.res.calls = <<>>)
  /\ api.st = "done" => Every(api.res.calls, LAMBDA c : c.f \in CallableNames)

\* A form outside the grammar: a comparison, a boolean operator, a string,
\* an attribute or subscript access (and the other node types _eval has
\* no branch for), a keyword argument, a unary operator other than -, a
\* binary operator other than + - * / **.
UnsupportedNode(n) ==
  \/ n.k = "Other"
  \/ n.k = "Call" /\ n.kw # <<>>
  \/ n.k = "UnaryOp" /\ n.op # "USub"
  \/ n.k = "BinOp" /\ n.op \notin {"Add", "Sub", "Mult", "Div", "Pow"}

\* C2: an expression that contains, anywhere in it, a form outside the
\* supported grammar makes eval_expr fail.
C2_UnsupportedFails ==
  IfParsed(LAMBDA tree : Some(NodeSeq(tree), UnsupportedNode) => api.res.st = "err")

\* C3: when evaluate() runs and the evaluator fails, the display shows
\* "Error", the pending expression is empty, and memory and the
\* degree/radian mode are what they were.
C3_ErrorShown ==
  last.st = "err" =>
    /\ entry = ErrorText
    /\ expression = <<>>
    /\ memory = last.mem
    /\ use_degrees = last.deg

\* A division by zero, in radian mode and with a number in memory.
C3_Witness ==
  /\ last.st = "err"
  /\ last.err = "ZeroDivisionError"
  /\ last.expr = <<"2", "/", "0">>
  /\ memory = FloatV(2 * Scale)
  /\ ~use_degrees
  /\ entry = ErrorText

\* What a call passes for the arguments raw when it has to convert.
Converted(raw) == <<Radians(raw[1]).v>> \o Tail(raw)

NoTrigCall(n) == ~(n.k = "Call" /\ n.func.k = "Name" /\ n.func.id \in TrigNames)

\* C4: a call passes its first argument converted to radians if and only
\* if it is a call of sin, cos or tan and use_degrees is true, and every
\* other argument as evaluated; an expression without sin, cos or tan
\* evaluates alike in both modes; sin(90) is 1.0 in degrees and 0.894 in
\* radians.
C4_DegreeRule ==
  api.st = "done" =>
    /\ Every(api.res.calls,
             LAMBDA c : c.a = IF c.f \in TrigNames /\ se_use_degrees
                              THEN Converted(c.raw) ELSE c.raw)
    /\ IfParsed(LAMBDA tree : Every(NodeSeq(tree), NoTrigCall)
                              => eval_expr(api.text, TRUE) = eval_expr(api.text, FALSE))
    /\ api.text = <<"s", "i", "n", "(", "9", "0", ")">>
         => StrValue(api.res.v) = IF se_use_degrees THEN <<"1", ".", "0">>
                                  ELSE <<"0", ".", "8", "9", "4">>

\* log(sin(90)) in degree mode: sin got 90 degrees in radians, log got
\* sin's result as it was.
C4_Witness ==
  /\ api.st = "done"
  /\ api.text = <<"l", "o", "g", "(">> \o <<"s", "i", "n", "(", "9", "0", ")">> \o <<")">>
  /\ se_use_degrees
  /\ api.res.st = "ok"
  /\ Len(api.res.calls) = 2
  /\ api.res.calls[1].f = NmSin
  /\ api.res.calls[1].a # api.res.calls[1].raw
  /\ api.res.calls[2].f = NmLog
  /\ api.res.calls[2].a = api.res.calls[2].raw

\* C5: a bare sin, cos, tan, log, sqrt or exp fails, so that evaluate()
\* never shows or chains a value that is not a number.
C5_BareCallableFails ==
  /\ last.st # "none" /\ last.expr \in CallableNames => last.st = "err"
  /\ last.st = "ok" => IsNum(last.v)

\* A call of a function with an argument count other than one, keyword
\* arguments counted, or a call of pi or e.
BadArityNode(n) ==
  /\ n.k = "Call"
  /\ n.func.k = "Name"
  /\ \/ n.func.id \in CallableNames /\ Len(n.args) + Len(n.kw) # 1
     \/ n.func.id \in ConstantNames

\* C6: a call of sin, cos, tan, log, sqrt or exp with no argument or with
\* two or more, and a call of pi or e, fail in both modes.
C6_UnaryOnly ==
  IfParsed(LAMBDA tree : Some(NodeSeq(tree), BadArityNode) => api.res.st = "err")

\* A logged call of sin, cos or tan whose argument was converted.
TrigCalls(calls) == SelectSeq(calls, LAMBDA c : c.f \in TrigNames)

\* C7: every call of sin, cos or tan of one evaluation uses the same mode,
\* whatever is written to the flags while the evaluation runs.
C7_OneMode ==
  conc.pc = "done" =>
    \A i, j \in 1..Len(TrigCalls(conc.res.calls)) :
      (TrigCalls(conc.res.calls)[i].a = TrigCalls(conc.res.calls)[i].raw)
        = (TrigCalls(conc.res.calls)[j].a = TrigCalls(conc.res.calls)[j].raw)

\* C8: after a successful evaluate() the display and the pending
\* expression are str(result), and an evaluate() right after it succeeds
\* and leaves both as they are.
C8_ChainIdempotent ==
  last.st = "ok" =>
    /\ entry = StrValue(last.v)
    /\ expression = StrValue(last.v)
    /\ With(eval_expr(ReplaceCaret(expression), use_degrees),
            LAMBDA r : r.st = "ok" /\ StrValue(r.v) = expression)

ArithOps == {"+", "-", "*", "/", "^"}
Prec(c) == IF c \in {"+", "-"} THEN 1 ELSE IF c \in {"*", "/"} THEN 2 ELSE 3
OpOf(c) ==
  CASE c = "+" -> "Add" [] c = "-" -> "Sub" [] c = "*" -> "Mult"
    [] c = "/" -> "Div" [] c = "^" -> "Pow"

\* x o y on outcomes: the first failure, or the operator on the values.
Apply2(c, x, y) ==
  IF x.st # "ok" THEN x ELSE IF y.st # "ok" THEN y ELSE ApplyBinOp(OpOf(c), x.v, y.v)
Digit(c) == NOk(IntV(DigitVal(c)))

\* a o1 b o2 c by the stated rules: the tighter operator first, the left
\* one of two equally tight ones first, the right one of two ^ first.
ByRules(t) ==
  IF Prec(t[4]) > Prec(t[2]) \/ (t[2] = "^" /\ t[4] = "^")
  THEN Apply2(t[2], Digit(t[1]), Apply2(t[4], Digit(t[3]), Digit(t[5])))
  ELSE Apply2(t[4], Apply2(t[2], Digit(t[1]), Digit(t[3])), Digit(t[5]))

IsTriple(t) ==
  /\ Len(t) = 5
  /\ t[1] \in Digits /\ t[3] \in Digits /\ t[5] \in Digits
  /\ t[2] \in ArithOps /\ t[4] \in ArithOps
IsNegPow(t) == Len(t) = 4 /\ t[1] = "-" /\ t[2] \in Digits /\ t[3] = "^" /\ t[4] \in Digits

\* The outcome r is the outcome x: both fail, or both give the same value.
SameOutcome(r, x) == r.st = x.st /\ (r.st = "ok" => r.v = x.v)

\* C9: with ^ replaced as evaluate() does, a o1 b o2 c evaluates as the
\* precedence and associativity rules say, -a^b is -(a^b), and 2+3*4 is
\* 14, 2^3^2 is 512, -2^2 is -4.
C9_Precedence ==
  api.st = "done" /\ api.who.caret =>
    /\ IsTriple(api.text) /\ ByRules(api.text).st # "oom"
         => SameOutcome(api.res, ByRules(api.text))
    /\ IsNegPow(api.text)
         => SameOutcome(api.res,
                        Apply2("-", Digit("0"), Apply2("^", Digit(api.text[2]), Digit(api.text[4]))))
    /\ api.text = <<"2", "+", "3", "*", "4">> => api.res.st = "ok" /\ api.res.v = IntV(14)
    /\ api.text = <<"2", "^", "3", "^", "2">> => api.res.st = "ok" /\ api.res.v = IntV(512)
    /\ api.text = <<"-", "2", "^", "2">> => api.res.st = "ok" /\ api.res.v = IntV(-4)

\* 2^3^2 has been evaluated to 512.
C9_Witness ==
  /\ api.st = "done"
  /\ api.who.caret
  /\ api.text = <<"2", "^", "3", "^", "2">>
  /\ api.res.st = "ok"
  /\ StrValue(api.res.v) = <<"5", "1", "2">>

\* The node's operation is undefined for the values of its operands: a
\* division by zero, sqrt of a negative number, log of a number that is
\* not positive.
ValueIs(node, P(_)) ==
  With(Eval(node, FixedFlag(se_use_degrees), <<>>, 0),
       LAMBDA r : r.st = "ok" /\ IsNum(r.v) /\ P(r.v))
UndefinedNode(n) ==
  \/ n.k = "BinOp" /\ n.op = "Div" /\ ValueIs(n.r, IsZero)
  \/ /\ n.k = "Call" /\ n.func.k = "Name" /\ Len(n.args) = 1
     /\ \/ n.func.id = NmSqrt /\ ValueIs(n.args[1], LAMBDA v : IsFinite(v) /\ v.n < 0)
        \/ n.func.id = NmLog /\ ValueIs(n.args[1], LAMBDA v : IsFinite(v) /\ v.n <= 0)

\* C10: an expression with a division by zero, sqrt of a negative number
\* or log of a number that is not positive, wherever in it, makes
\* eval_expr fail.
C10_UndefinedFails ==
  IfParsed(LAMBDA tree : Some(NodeSeq(tree), UndefinedNode) => api.res.st = "err")
====
